---- MODULE Spec2Model ----
(***************************************************************************)
(* Model of casbin::Model (casbin/model/model.cpp): the model definition  *)
(* store (AddDef, LoadModelFromConfig, IsHashsetUsagePossible) and the    *)
(* policy CRUD engine over an assertion's PoliciesValues container.       *)
(*                                                                         *)
(* std::string values are sequences of one-character strings, so that      *)
(* Split, Trim, RemoveComments and std::regex_replace are computed on the  *)
(* text itself.  Section names are the one-character strings of the source.*)
(***************************************************************************)
EXTENDS Integers, Sequences, FiniteSets, TLC

VARIABLES m, last, crashed

vars == <<m, last, crashed>>

(***************************************************************************)
(* Bounds                                                                  *)
(***************************************************************************)
\* largest key suffix a configuration defines (keys sec, sec2, ...)
MaxSuffix == 2
\* largest number of rules a container is grown to
MaxRules == 3
\* largest number of rules in a batch argument
MaxBatch == 2

(***************************************************************************)
(* Text helpers                                                            *)
(***************************************************************************)
Range(s) == {s[i] : i \in 1..Len(s)}

IsSpace(c) == c = " "

\* casbin Trim: strips leading and trailing white space
RECURSIVE LTrim(_)
LTrim(s) == IF s # <<>> /\ IsSpace(Head(s)) THEN LTrim(Tail(s)) ELSE s

RECURSIVE RTrim(_)
RTrim(s) == IF s # <<>> /\ IsSpace(s[Len(s)]) THEN RTrim(SubSeq(s, 1, Len(s) - 1)) ELSE s

Trim(s) == RTrim(LTrim(s))

\* position of the first occurrence of character c in s at or after from, 0 if none
RECURSIVE Find(_, _, _)
Find(s, c, from) ==
    IF from > Len(s) THEN 0
    ELSE IF s[from] = c THEN from
    ELSE Find(s, c, from + 1)

\* casbin Split(str, ","): the pieces between the delimiters, at least one piece
RECURSIVE Split(_, _)
Split(s, del) ==
    LET pos == Find(s, del, 1) IN
    IF pos = 0 THEN <<s>>
    ELSE <<SubSeq(s, 1, pos - 1)>> \o Split(SubSeq(s, pos + 1, Len(s)), del)

\* casbin RemoveComments: cuts the text at the first "#" and trims what is left
RemoveComments(s) ==
    LET pos == Find(s, "#", 1) IN
    IF pos = 0 THEN s ELSE Trim(SubSeq(s, 1, pos - 1))

\* std::regex match of pattern pat at position pos of s; the patterns built by
\* IsHashsetUsagePossible hold only literal characters and ".", which matches
\* any character
RegexMatchAt(s, pos, pat) ==
    /\ pos + Len(pat) - 1 <= Len(s)
    /\ \A k \in 1..Len(pat) : pat[k] = "." \/ pat[k] = s[pos + k - 1]

\* std::regex_replace(s, std::regex(pat), ""): every non-overlapping match,
\* found left to right, is removed
RECURSIVE RegexReplaceFrom(_, _, _)
RegexReplaceFrom(s, pat, pos) ==
    IF pos > Len(s) THEN <<>>
    ELSE IF RegexMatchAt(s, pos, pat) THEN RegexReplaceFrom(s, pat, pos + Len(pat))
    ELSE <<s[pos]>> \o RegexReplaceFrom(s, pat, pos + 1)

regex_replace(s, pat) == RegexReplaceFrom(s, pat, 1)

(***************************************************************************)
(* Sections                                                                *)
(***************************************************************************)
\* the reading order with the policy section put first
reading_order_policy_first == <<"p", "m", "r", "g", "e">>

sections_names_reading_order == <<"m", "r", "p", "g", "e">>

section_name_map ==
    [sec \in {"r", "p", "g", "e", "m"} |->
        CASE sec = "r" -> "request_definition"
          [] sec = "p" -> "policy_definition"
          [] sec = "g" -> "role_definition"
          [] sec = "e" -> "policy_effect"
          [] sec = "m" -> "matchers"]

required_sections == <<"r", "p", "e", "m">>

Sections == Range(sections_names_reading_order)

\* std::to_string for the suffixes in range
to_string(i) ==
    CASE i = 2 -> <<"2">>
      [] i = 3 -> <<"3">>
      [] i = 4 -> <<"4">>
      [] OTHER -> <<"5">>

GetKeySuffix(i) == IF i = 1 THEN <<>> ELSE to_string(i)

\* sec + GetKeySuffix(i), the key LoadSection passes to LoadAssertion
KeyOf(sec, i) == <<sec>> \o GetKeySuffix(i)

(***************************************************************************)
(* PoliciesValues: a rule container in one of two representations          *)
(***************************************************************************)
createWithVector == [is_hash |-> FALSE, vec |-> <<>>, set |-> {}]

createWithHashset == [is_hash |-> TRUE, vec |-> <<>>, set |-> {}]

\* the rules a container holds, as a set
Rules(pv) == IF pv.is_hash THEN pv.set ELSE Range(pv.vec)

Size(pv) == IF pv.is_hash THEN Cardinality(pv.set) ELSE Len(pv.vec)

\* emplace: a vector appends, a hash set inserts unless present
emplace(pv, rule) ==
    IF pv.is_hash THEN [pv EXCEPT !.set = @ \cup {rule}]
    ELSE [pv EXCEPT !.vec = Append(@, rule)]

(***************************************************************************)
(* The model: section -> assertion key -> Assertion                        *)
(***************************************************************************)
HasSection(mm, sec) == sec \in DOMAIN mm

HasAssertion(mm, sec, key) == HasSection(mm, sec) /\ key \in DOMAIN mm[sec]

EmptyModel == [sec \in {} |-> <<>>]

AssertionMap == [key \in {} |-> <<>>]

\* m[sec].assertion_map[key] = ast
PutAssertion(mm, sec, key, ast) ==
    [s \in DOMAIN mm |->
        IF s = sec
        THEN [k \in DOMAIN mm[s] \cup {key} |-> IF k = key THEN ast ELSE mm[s][k]]
        ELSE mm[s]]

\* if (m.find(sec) == m.end()) m[sec] = AssertionMap();
EnsureSection(mm, sec) ==
    IF HasSection(mm, sec) THEN mm
    ELSE [s \in DOMAIN mm \cup {sec} |-> IF s = sec THEN AssertionMap ELSE mm[s]]

\* " && " repeated n times
RECURSIVE Repeat(_, _)
Repeat(s, n) == IF n <= 0 THEN <<>> ELSE s \o Repeat(s, n - 1)

\* the loop of IsHashsetUsagePossible over the request tokens
RECURSIVE StripClauses(_, _)
StripClauses(matcher, tokens) ==
    IF tokens = <<>> THEN matcher
    ELSE LET token == Head(tokens)
             effective_token == SubSeq(token, 3, Len(token))
             pat == <<"r", ".">> \o effective_token \o <<" ", "=", "=", " ", "p", ".">> \o effective_token
         IN StripClauses(regex_replace(matcher, pat), Tail(tokens))

\* the comparison IsHashsetUsagePossible returns, for the request tokens
MatcherIsConjunction(mm, request_tokens) ==
    /\ Repeat(<<" ", "&", "&", " ">>, Len(request_tokens) - 1)
          = StripClauses(mm["m"][<<"m">>].value, request_tokens)
    /\ ~HasSection(mm, "g")

\* [threw, val]: the value returned, or std::out_of_range thrown by at("m")
IsHashsetUsagePossible(mm) ==
    IF ~HasSection(mm, "r") \/ ~HasAssertion(mm, "r", <<"r">>)
    THEN [threw |-> FALSE, val |-> FALSE]
    ELSE IF ~HasAssertion(mm, "m", <<"m">>)
    THEN [threw |-> TRUE, val |-> FALSE]
    ELSE [threw |-> FALSE, val |-> MatcherIsConjunction(mm, mm["r"][<<"r">>].tokens)]

\* token = key + "_" + Trim(token) for every token
NamespaceTokens(key, tokens) ==
    [i \in 1..Len(tokens) |-> key \o <<"_">> \o Trim(tokens[i])]

\* the Assertion AddDef builds, before its policy container is chosen
NewAssertion(sec, key, value) ==
    IF sec = "r" \/ sec = "p"
    THEN [key |-> key, value |-> value, tokens |-> NamespaceTokens(key, Split(value, ","))]
    ELSE [key |-> key, value |-> RemoveComments(value), tokens |-> <<>>]

\* the end of AddDef, keeping the container of an assertion that is replaced
StoreAssertionKeepsRules(m1, sec, key, ast, hs) ==
    IF hs.threw THEN [m |-> m1, ret |-> FALSE, threw |-> TRUE]
    ELSE [m |-> PutAssertion(m1, sec, key,
                    [key |-> ast.key, value |-> ast.value, tokens |-> ast.tokens,
                     policy |-> IF HasAssertion(m1, sec, key) THEN m1[sec][key].policy
                                ELSE IF hs.val THEN createWithHashset ELSE createWithVector]),
          ret |-> TRUE, threw |-> FALSE]

\* the end of AddDef, hs being what IsHashsetUsagePossible(*this) gave
StoreAssertion(m1, sec, key, ast, hs) ==
    IF hs.threw THEN [m |-> m1, ret |-> FALSE, threw |-> TRUE]
    ELSE [m |-> PutAssertion(m1, sec, key,
                    [key |-> ast.key, value |-> ast.value, tokens |-> ast.tokens,
                     policy |-> IF hs.val THEN createWithHashset ELSE createWithVector]),
          ret |-> TRUE, threw |-> FALSE]

\* AddDef after the section was created in m1
AddDefInSection(m1, sec, key, value) ==
    IF sec = "p" /\ (~HasSection(m1, "m") \/ ~HasSection(m1, "r"))
    THEN [m |-> m1, ret |-> FALSE, threw |-> FALSE]
    ELSE StoreAssertion(m1, sec, key, NewAssertion(sec, key, value), IsHashsetUsagePossible(m1))

\* AddDef: [m, ret, threw]
AddDef(mm, sec, key, value) ==
    IF value = <<>> THEN [m |-> mm, ret |-> FALSE, threw |-> FALSE]
    ELSE AddDefInSection(EnsureSection(mm, sec), sec, key, value)

(***************************************************************************)
(* Load protocol                                                           *)
(***************************************************************************)
\* cfg->GetString(section_name_map[sec] + "::" + key); a configuration is a
\* function from section to the values of its keys sec, sec2, ...; an absent
\* key reads as the empty string
GetString(cfg, sec, key) ==
    IF \E i \in 1..Len(cfg[sec]) : KeyOf(sec, i) = key
    THEN cfg[sec][CHOOSE i \in 1..Len(cfg[sec]) : KeyOf(sec, i) = key]
    ELSE <<>>

\* LoadAssertion: [m, ret, threw]
LoadAssertion(mm, cfg, sec, key) == AddDef(mm, sec, key, GetString(cfg, sec, key))

\* a result with the calls made before it put in front
AfterCalls(calls, rest) ==
    [m |-> rest.m, threw |-> rest.threw, calls |-> calls \o rest.calls]

\* the while loop of LoadSection from suffix i on: [m, threw, calls], calls
\* being the AddDef calls made, in order
RECURSIVE LoadSectionFrom(_, _, _, _)
\* one iteration that goes on to the next suffix after an empty value
LoadSectionIterPastGap(cfg, sec, i, r, call) ==
    IF r.threw \/ (~r.ret /\ i >= Len(cfg[sec]))
    THEN [m |-> r.m, threw |-> r.threw, calls |-> <<[call EXCEPT !.ret = r.ret]>>]
    ELSE AfterCalls(<<[call EXCEPT !.ret = r.ret]>>, LoadSectionFrom(r.m, cfg, sec, i + 1))

\* one iteration, r being what LoadAssertion returned
LoadSectionIter(cfg, sec, i, r, call) ==
    IF r.threw \/ ~r.ret
    THEN [m |-> r.m, threw |-> r.threw, calls |-> <<[call EXCEPT !.ret = r.ret]>>]
    ELSE AfterCalls(<<[call EXCEPT !.ret = r.ret]>>, LoadSectionFrom(r.m, cfg, sec, i + 1))

LoadSectionFrom(mm, cfg, sec, i) ==
    LoadSectionIter(cfg, sec, i, LoadAssertion(mm, cfg, sec, KeyOf(sec, i)),
                    [sec |-> sec, key |-> KeyOf(sec, i),
                     value |-> GetString(cfg, sec, KeyOf(sec, i)), ret |-> FALSE])

LoadSection(mm, cfg, sec) == LoadSectionFrom(mm, cfg, sec, 1)

\* the first loop of LoadModelFromConfig over the sections from index k on
RECURSIVE LoadSectionsFrom(_, _, _)
\* the sections after index k, r being what LoadSection returned for it
LoadSectionsNext(cfg, k, r) ==
    IF r.threw THEN r ELSE AfterCalls(r.calls, LoadSectionsFrom(r.m, cfg, k + 1))

LoadSectionsFrom(mm, cfg, k) ==
    IF k > Len(sections_names_reading_order)
    THEN [m |-> mm, threw |-> FALSE, calls |-> <<>>]
    ELSE LoadSectionsNext(cfg, k, LoadSection(mm, cfg, sections_names_reading_order[k]))

\* the human-readable names of the required sections from index k on that the
\* model does not have
RECURSIVE MissingFrom(_, _)
MissingFrom(mm, k) ==
    IF k > Len(required_sections) THEN <<>>
    ELSE (IF HasSection(mm, required_sections[k]) THEN <<>>
          ELSE <<section_name_map[required_sections[k]]>>)
         \o MissingFrom(mm, k + 1)

\* the end of LoadModelFromConfig, r being the result of the first loop and ms
\* the names collected by the second
LoadOutcome(r, ms) ==
    [m |-> r.m,
     status |-> IF r.threw THEN "out_of_range"
                ELSE IF Len(ms) > 0 THEN "MissingRequiredSections" ELSE "ok",
     ms |-> IF r.threw THEN <<>> ELSE ms,
     calls |-> r.calls]

LoadModelFromConfigTo(r) == LoadOutcome(r, MissingFrom(r.m, 1))

\* LoadModelFromConfig: [m, status, ms, calls]; status is "ok" or the
\* exception that left the function, ms the names the MissingRequiredSections
\* message joins with ","
LoadModelFromConfig(mm, cfg) == LoadModelFromConfigTo(LoadSectionsFrom(mm, cfg, 1))

(***************************************************************************)
(* Inputs of the definition store                                          *)
(***************************************************************************)
\* "r.<f> == p.<f>"
Clause(f) == <<"r", ".">> \o f \o <<" ", "=", "=", " ", "p", ".">> \o f

AndSep == <<" ", "&", "&", " ">>

\* r.a == p.a
MatcherA == Clause(<<"a">>)

\* r.a == p.a && r.b == p.b
MatcherAB == Clause(<<"a">>) \o AndSep \o Clause(<<"b">>)

\* r.a == p.a && r.a == p.a
MatcherAA == Clause(<<"a">>) \o AndSep \o Clause(<<"a">>)

\* r.a == p.a # c
MatcherAComment == Clause(<<"a">>) \o <<" ", "#", " ", "c">>

\* a
FieldsA == <<"a">>

\* a, b
FieldsAB == <<"a", ",", " ", "b">>

\* _, _
RoleDef == <<"_", ",", " ", "_">>

\* some(where (p.eft == allow)), shortened
EffectDef == <<"s", "o", "m", "e">>

\* the (section, key, value) triples add_definition is called with directly
DefInputs ==
    {<<"m", <<"m">>, v>> : v \in {MatcherA, MatcherAB, MatcherAA}}
    \cup {<<"r", <<"r">>, v>> : v \in {FieldsA, FieldsAB}}
    \cup {<<"p", <<"p">>, v>> : v \in {FieldsA, <<>>}}
    \cup {<<"g", <<"g">>, RoleDef>>, <<"e", <<"e">>, EffectDef>>}

\* the values a configuration gives the key of a section with suffix i
CfgValues(sec, i) ==
    IF i > 1 THEN (IF sec = "m" THEN {<<>>, MatcherA}
                   ELSE IF sec \in {"r", "p"} THEN {<<>>, FieldsA} ELSE {<<>>})
    ELSE CASE sec = "m" -> {<<>>, MatcherAComment, MatcherAB}
           [] sec = "r" -> {<<>>, FieldsA, FieldsAB}
           [] sec = "p" -> {<<>>, FieldsA}
           [] sec = "g" -> {<<>>, RoleDef}
           [] sec = "e" -> {<<>>, EffectDef}

\* the value sequences of one section: keys sec, sec2, ... up to MaxSuffix
RECURSIVE SecConfigs(_, _)
SecConfigs(sec, n) ==
    IF n = 0 THEN {<<>>}
    ELSE {Append(c, v) : c \in SecConfigs(sec, n - 1), v \in CfgValues(sec, n)}

Configs ==
    {[s \in Sections |->
        CASE s = "m" -> cm [] s = "r" -> cr [] s = "p" -> cp [] s = "g" -> cg [] s = "e" -> ce] :
        cm \in SecConfigs("m", MaxSuffix), cr \in SecConfigs("r", MaxSuffix),
        cp \in SecConfigs("p", MaxSuffix), cg \in SecConfigs("g", MaxSuffix),
        ce \in SecConfigs("e", MaxSuffix)}

(***************************************************************************)
(* Specification of the definition store                                   *)
(***************************************************************************)
NoCall == [op |-> "none"]

\* Model::Model(): an empty model
InitDef ==
    /\ m = EmptyModel
    /\ last = NoCall
    /\ crashed = FALSE

\* a direct call of AddDef(sec, key, value); an exception it throws is caught
\* by the caller
AddDefCall(sec, key, value) ==
    LET r == AddDef(m, sec, key, value) IN
    /\ ~crashed
    /\ m' = r.m
    /\ last' = [op |-> "AddDef", sec |-> sec, key |-> key, value |-> value,
                ret |-> r.ret, threw |-> r.threw, pre |-> m]
    /\ UNCHANGED crashed

\* NewModelFromString / NewModelFromFile / Model(path): LoadModelFromConfig on
\* a newly constructed model
LoadCall(cfg) ==
    LET r == LoadModelFromConfig(m, cfg) IN
    /\ ~crashed
    /\ m = EmptyModel
    /\ last.op = "none"
    /\ m' = r.m
    /\ last' = [op |-> "Load", cfg |-> cfg, status |-> r.status, ms |-> r.ms,
                calls |-> r.calls, pre |-> m]
    /\ UNCHANGED crashed

NextDef ==
    \/ \E d \in DefInputs : AddDefCall(d[1], d[2], d[3])
    \/ \E cfg \in Configs : LoadCall(cfg)

SpecDef == InitDef /\ [][NextDef]_vars

(***************************************************************************)
(* Policy CRUD engine                                                      *)
(***************************************************************************)
\* casbin ArrayEquals: same length and the same field at every position
ArrayEquals(a, b) == Len(a) = Len(b) /\ \A i \in 1..Len(a) : a[i] = b[i]

\* m[sec].assertion_map[p_type]->policy
Policy(mm, sec, p_type) == mm[sec][p_type].policy

SetPolicy(mm, sec, p_type, pv) == [mm EXCEPT ![sec][p_type].policy = pv]

RemoveAt(vec, i) == SubSeq(vec, 1, i - 1) \o SubSeq(vec, i + 1, Len(vec))

\* index of the first element of vec equal to rule, 0 if none
FirstMatch(vec, rule) ==
    IF \E i \in 1..Len(vec) : ArrayEquals(rule, vec[i])
    THEN CHOOSE i \in 1..Len(vec) :
            /\ ArrayEquals(rule, vec[i])
            /\ \A k \in 1..(i - 1) : ~ArrayEquals(rule, vec[k])
    ELSE 0

\* for (it = begin; it != end; ++it) if (ArrayEquals(rule, *it)) { erase(it); break; }
EraseFirst(pv, rule) ==
    IF pv.is_hash THEN [pv EXCEPT !.set = {x \in @ : ~ArrayEquals(rule, x)}]
    ELSE IF FirstMatch(pv.vec, rule) = 0 THEN pv
    ELSE [pv EXCEPT !.vec = RemoveAt(@, FirstMatch(pv.vec, rule))]

\* emplace of every rule of a batch, in order
RECURSIVE EmplaceAll(_, _)
EmplaceAll(pv, rules) ==
    IF rules = <<>> THEN pv ELSE EmplaceAll(emplace(pv, Head(rules)), Tail(rules))

HasPolicy(mm, sec, p_type, rule) ==
    \E x \in Rules(Policy(mm, sec, p_type)) : ArrayEquals(rule, x)

\* AddPolicy: [m, ret]
AddPolicy(mm, sec, p_type, rule) ==
    IF ~HasPolicy(mm, sec, p_type, rule)
    THEN [m |-> SetPolicy(mm, sec, p_type, emplace(Policy(mm, sec, p_type), rule)), ret |-> TRUE]
    ELSE [m |-> mm, ret |-> FALSE]

\* AddPolicies with the presence check and the insertion in one loop
RECURSIVE AddPoliciesOneLoop(_, _, _, _)
AddPoliciesOneLoop(mm, sec, p_type, rules) ==
    IF rules = <<>> THEN [m |-> mm, ret |-> TRUE]
    ELSE IF HasPolicy(mm, sec, p_type, Head(rules)) THEN [m |-> mm, ret |-> FALSE]
    ELSE AddPoliciesOneLoop(SetPolicy(mm, sec, p_type, emplace(Policy(mm, sec, p_type), Head(rules))),
                            sec, p_type, Tail(rules))

\* AddPolicies: [m, ret]
AddPolicies(mm, sec, p_type, rules) ==
    IF \E i \in 1..Len(rules) : HasPolicy(mm, sec, p_type, rules[i])
    THEN [m |-> mm, ret |-> FALSE]
    ELSE [m |-> SetPolicy(mm, sec, p_type, EmplaceAll(Policy(mm, sec, p_type), rules)), ret |-> TRUE]

\* UpdatePolicy: [m, ret]
UpdatePolicy(mm, sec, p_type, oldRule, newRule) ==
    LET is_oldRule_deleted == HasPolicy(mm, sec, p_type, oldRule)
        m1 == SetPolicy(mm, sec, p_type, EraseFirst(Policy(mm, sec, p_type), oldRule))
    IN IF ~is_oldRule_deleted THEN [m |-> mm, ret |-> FALSE]
       ELSE IF ~HasPolicy(m1, sec, p_type, newRule)
       THEN [m |-> SetPolicy(m1, sec, p_type, emplace(Policy(m1, sec, p_type), newRule)), ret |-> TRUE]
       ELSE [m |-> m1, ret |-> FALSE]

\* the first loop of UpdatePolicies: [pv, ok], ok false when an old rule was
\* not found, with the rules before it already erased
RECURSIVE DeleteOldRules(_, _)
DeleteOldRules(pv, oldRules) ==
    IF oldRules = <<>> THEN [pv |-> pv, ok |-> TRUE]
    ELSE IF \E x \in Rules(pv) : ArrayEquals(Head(oldRules), x)
    THEN DeleteOldRules(EraseFirst(pv, Head(oldRules)), Tail(oldRules))
    ELSE [pv |-> pv, ok |-> FALSE]

\* UpdatePolicies: [m, ret]
UpdatePolicies(mm, sec, p_type, oldRules, newRules) ==
    LET d == DeleteOldRules(Policy(mm, sec, p_type), oldRules)
        m1 == SetPolicy(mm, sec, p_type, d.pv)
    IN IF ~d.ok THEN [m |-> m1, ret |-> FALSE]
       ELSE IF \E i \in 1..Len(newRules) : HasPolicy(m1, sec, p_type, newRules[i])
       THEN [m |-> m1, ret |-> FALSE]
       ELSE [m |-> SetPolicy(m1, sec, p_type, EmplaceAll(d.pv, newRules)), ret |-> TRUE]

\* RemovePolicy: [m, ret]
RemovePolicy(mm, sec, p_type, rule) ==
    IF HasPolicy(mm, sec, p_type, rule)
    THEN [m |-> SetPolicy(mm, sec, p_type, EraseFirst(Policy(mm, sec, p_type), rule)), ret |-> TRUE]
    ELSE [m |-> mm, ret |-> FALSE]

\* the inner loop of the second loop of RemovePolicies on a vector, from
\* position it: erase(policy_it) is followed by ++policy_it, so the element
\* that moved into the erased position is skipped; ub is set when the last
\* element was erased and the iterator stepped past end()
RECURSIVE EraseLoopVec(_, _, _)
EraseLoopVec(vec, rule, it) ==
    IF it = Len(vec) + 1 THEN [vec |-> vec, ub |-> FALSE]
    ELSE IF it > Len(vec) + 1 THEN [vec |-> vec, ub |-> TRUE]
    ELSE IF ArrayEquals(rule, vec[it]) THEN EraseLoopVec(RemoveAt(vec, it), rule, it + 1)
    ELSE EraseLoopVec(vec, rule, it + 1)

\* the same loop on either representation: [pv, ub]; on a hash set erase
\* invalidates the iterator that is then incremented
EraseLoop(pv, rule) ==
    IF pv.is_hash
    THEN [pv |-> [pv EXCEPT !.set = {x \in @ : ~ArrayEquals(rule, x)}],
          ub |-> \E x \in pv.set : ArrayEquals(rule, x)]
    ELSE [pv |-> [pv EXCEPT !.vec = EraseLoopVec(pv.vec, rule, 1).vec],
          ub |-> EraseLoopVec(pv.vec, rule, 1).ub]

\* the second loop of RemovePolicies: the set of [pv, crashed] it can end in;
\* a use of an invalid iterator either ends the loop or ends the program
RECURSIVE EraseAll(_, _)
EraseAll(pv, rules) ==
    IF rules = <<>> THEN {[pv |-> pv, crashed |-> FALSE]}
    ELSE LET e == EraseLoop(pv, Head(rules))
         IN EraseAll(e.pv, Tail(rules))
            \cup (IF e.ub THEN {[pv |-> e.pv, crashed |-> TRUE]} ELSE {})

\* RemovePolicies with the presence check and the deletion in one loop
RECURSIVE RemovePoliciesOneLoop(_, _, _, _)
RemovePoliciesOneLoop(mm, sec, p_type, rules) ==
    IF rules = <<>> THEN {[m |-> mm, ret |-> TRUE, crashed |-> FALSE]}
    ELSE IF ~HasPolicy(mm, sec, p_type, Head(rules))
    THEN {[m |-> mm, ret |-> FALSE, crashed |-> FALSE]}
    ELSE RemovePoliciesOneLoop(SetPolicy(mm, sec, p_type, EraseFirst(Policy(mm, sec, p_type), Head(rules))),
                               sec, p_type, Tail(rules))

\* RemovePolicies: the set of [m, ret, crashed]
RemovePolicies(mm, sec, p_type, rules) ==
    IF \E i \in 1..Len(rules) : ~HasPolicy(mm, sec, p_type, rules[i])
    THEN {[m |-> mm, ret |-> FALSE, crashed |-> FALSE]}
    ELSE {[m |-> SetPolicy(mm, sec, p_type, o.pv), ret |-> TRUE, crashed |-> o.crashed] :
            o \in EraseAll(Policy(mm, sec, p_type), rules)}

\* the inner loop of GetFilteredPolicy / RemoveFilteredPolicy over field_values
\* from position j on (field_index counts from 0): the values `matched` can
\* end with; policy_value[field_index + j] past the end of the rule reads an
\* arbitrary value
RECURSIVE MatchFrom(_, _, _, _)
MatchFrom(policy_value, field_index, field_values, j) ==
    IF j > Len(field_values) THEN {TRUE}
    ELSE IF field_values[j] = "" THEN MatchFrom(policy_value, field_index, field_values, j + 1)
    ELSE IF field_index + j > Len(policy_value)
    THEN {FALSE} \cup MatchFrom(policy_value, field_index, field_values, j + 1)
    ELSE IF policy_value[field_index + j] # field_values[j] THEN {FALSE}
    ELSE MatchFrom(policy_value, field_index, field_values, j + 1)

Matched(policy_value, field_index, field_values) ==
    MatchFrom(policy_value, field_index, field_values, 1)

\* a read past the end of the rule happens
RECURSIVE ReadsPastEnd(_, _, _, _)
ReadsPastEnd(policy_value, field_index, field_values, j) ==
    IF j > Len(field_values) THEN FALSE
    ELSE IF field_values[j] = "" THEN ReadsPastEnd(policy_value, field_index, field_values, j + 1)
    ELSE IF field_index + j > Len(policy_value) THEN TRUE
    ELSE IF policy_value[field_index + j] # field_values[j] THEN FALSE
    ELSE ReadsPastEnd(policy_value, field_index, field_values, j + 1)

\* PoliciesValues(capacity): an empty container of the representation of pv
NewLike(pv) == IF pv.is_hash THEN createWithHashset ELSE createWithVector

\* the elements of vec whose flag is set, in order
RECURSIVE SelectFlagged(_, _, _)
SelectFlagged(vec, flags, want) ==
    IF vec = <<>> THEN <<>>
    ELSE (IF Head(flags) = want THEN <<Head(vec)>> ELSE <<>>)
         \o SelectFlagged(Tail(vec), Tail(flags), want)

\* the outer loop: the set of [effects, tmp, crashed], effects holding the
\* matched rules and tmp the others
Partition(pv, field_index, field_values) ==
    IF pv.is_hash
    THEN {[effects |-> [pv EXCEPT !.set = {x \in pv.set : f[x]}],
           tmp |-> [pv EXCEPT !.set = {x \in pv.set : ~f[x]}],
           crashed |-> c] :
            f \in {g \in [pv.set -> BOOLEAN] :
                     \A x \in pv.set : g[x] \in Matched(x, field_index, field_values)},
            c \in {FALSE} \cup {TRUE : x \in {y \in pv.set : ReadsPastEnd(y, field_index, field_values, 1)}}}
    ELSE {[effects |-> [pv EXCEPT !.vec = SelectFlagged(pv.vec, f, TRUE)],
           tmp |-> [pv EXCEPT !.vec = SelectFlagged(pv.vec, f, FALSE)],
           crashed |-> c] :
            f \in {g \in [1..Len(pv.vec) -> BOOLEAN] :
                     \A i \in 1..Len(pv.vec) : g[i] \in Matched(pv.vec[i], field_index, field_values)},
            c \in {FALSE} \cup {TRUE : i \in {k \in 1..Len(pv.vec) :
                                        ReadsPastEnd(pv.vec[k], field_index, field_values, 1)}}}

\* GetFilteredPolicy: the set of [res, crashed]
GetFilteredPolicy(mm, sec, p_type, field_index, field_values) ==
    {[res |-> o.effects, crashed |-> o.crashed] :
        o \in Partition(Policy(mm, sec, p_type), field_index, field_values)}

\* RemoveFilteredPolicy with `policy = effects` in place of `policy = tmp`
RemoveFilteredPolicyKeepsMatched(mm, sec, p_type, field_index, field_values) ==
    {[m |-> IF o.crashed THEN mm ELSE SetPolicy(mm, sec, p_type, o.effects),
      ret |-> Size(o.effects) > 0, effects |-> o.effects, crashed |-> o.crashed] :
        o \in Partition(Policy(mm, sec, p_type), field_index, field_values)}

\* RemoveFilteredPolicy: the set of [m, ret, effects, crashed]
RemoveFilteredPolicy(mm, sec, p_type, field_index, field_values) ==
    {[m |-> IF o.crashed THEN mm ELSE SetPolicy(mm, sec, p_type, o.tmp),
      ret |-> Size(o.effects) > 0, effects |-> o.effects, crashed |-> o.crashed] :
        o \in Partition(Policy(mm, sec, p_type), field_index, field_values)}

\* policy.clear() when policy.size() > 0: the representation stays
Cleared(pv) == IF Size(pv) > 0 THEN [is_hash |-> pv.is_hash, vec |-> <<>>, set |-> {}] ELSE pv

\* one loop of ClearPolicy over m1[sec].assertion_map
ClearAssertions(m1, sec) ==
    [s \in DOMAIN m1 |->
        IF s = sec
        THEN [k \in DOMAIN m1[s] |-> [m1[s][k] EXCEPT !.policy = Cleared(@)]]
        ELSE m1[s]]

\* this->m[sec] is std::unordered_map::operator[], which inserts an empty
\* section when there is none
ClearSection(mm, sec) == ClearAssertions(EnsureSection(mm, sec), sec)

\* ClearPolicy: the model after the call
ClearPolicy(mm) == ClearSection(ClearSection(mm, "p"), "g")

(***************************************************************************)
(* Inputs of the CRUD engine                                               *)
(***************************************************************************)
\* rule tuples; the policy definitions below have two tokens, so the last
\* rule is one of the wrong arity
RuleInputs == {<<"x", "y">>, <<"y", "y">>, <<"x">>}

\* the batches of at most n rules
RECURSIVE BatchesUpTo(_)
BatchesUpTo(n) ==
    IF n = 0 THEN {<<>>}
    ELSE BatchesUpTo(n - 1)
         \cup {Append(b, r) : b \in {c \in BatchesUpTo(n - 1) : Len(c) = n - 1}, r \in RuleInputs}

Batches == BatchesUpTo(MaxBatch) \ {<<>>}

\* the (old_rules, new_rules) arguments of update_many: batches of the same
\* length over the rules of the right arity
UpdateInputs ==
    {<<o, n>> : o \in Batches, n \in Batches} \cap
    {u \in Batches \X Batches :
        /\ Len(u[1]) = Len(u[2])
        /\ \A i \in 1..Len(u[1]) : Len(u[1][i]) = 2 /\ Len(u[2][i]) = 2}

\* (field_index, field_values) arguments of the filters
FilterInputs ==
    {<<0, <<>>>>, <<0, <<"x">>>>, <<1, <<"y">>>>, <<0, <<"", "y">>>>, <<0, <<"y", "">>>>}

\* request a, b; policy a, b; matcher r.a == p.a && r.b == p.b: set storage
CfgSet ==
    [s \in Sections |->
        CASE s = "m" -> <<MatcherAB>> [] s = "r" -> <<FieldsAB>> [] s = "p" -> <<FieldsAB>>
          [] s = "g" -> <<>> [] s = "e" -> <<EffectDef>>]

\* the same with matcher r.a == p.a: ordered-sequence storage
CfgSeq == [CfgSet EXCEPT !["m"] = <<MatcherA>>]

\* the rule-bearing assertions of a model
Targets(mm) ==
    {t \in {"p", "g"} \X {<<"p">>, <<"g">>, <<"p", "2">>} : HasAssertion(mm, t[1], t[2])}

\* the number of rules the model stores
RECURSIVE TotalSize(_, _)
TotalSize(mm, ts) ==
    IF ts = {} THEN 0
    ELSE LET t == CHOOSE x \in ts : TRUE
         IN Size(Policy(mm, t[1], t[2])) + TotalSize(mm, ts \ {t})

NumRules(mm) == TotalSize(mm, Targets(mm))

(***************************************************************************)
(* Specification of the CRUD engine                                        *)
(***************************************************************************)
\* a model loaded from one of the configurations above, without rules
Init ==
    /\ m \in {LoadModelFromConfig(EmptyModel, c).m : c \in {CfgSet, CfgSeq}}
    /\ last = NoCall
    /\ crashed = FALSE

AddPolicyCall(sec, p_type, rule) ==
    LET r == AddPolicy(m, sec, p_type, rule) IN
    /\ ~crashed
    /\ NumRules(r.m) <= MaxRules
    /\ m' = r.m
    /\ last' = [op |-> "AddPolicy", sec |-> sec, key |-> p_type, rule |-> rule,
                ret |-> r.ret, pre |-> m]
    /\ UNCHANGED crashed

AddPoliciesCall(sec, p_type, rules) ==
    LET r == AddPolicies(m, sec, p_type, rules) IN
    /\ ~crashed
    /\ NumRules(r.m) <= MaxRules
    /\ m' = r.m
    /\ last' = [op |-> "AddPolicies", sec |-> sec, key |-> p_type, rules |-> rules,
                ret |-> r.ret, pre |-> m]
    /\ UNCHANGED crashed

UpdatePolicyCall(sec, p_type, oldRule, newRule) ==
    LET r == UpdatePolicy(m, sec, p_type, oldRule, newRule) IN
    /\ ~crashed
    /\ m' = r.m
    /\ last' = [op |-> "UpdatePolicy", sec |-> sec, key |-> p_type, oldRule |-> oldRule,
                newRule |-> newRule, ret |-> r.ret, pre |-> m]
    /\ UNCHANGED crashed

UpdatePoliciesCall(sec, p_type, oldRules, newRules) ==
    LET r == UpdatePolicies(m, sec, p_type, oldRules, newRules) IN
    /\ ~crashed
    /\ NumRules(r.m) <= MaxRules
    /\ m' = r.m
    /\ last' = [op |-> "UpdatePolicies", sec |-> sec, key |-> p_type, oldRules |-> oldRules,
                newRules |-> newRules, ret |-> r.ret, pre |-> m]
    /\ UNCHANGED crashed

RemovePolicyCall(sec, p_type, rule) ==
    LET r == RemovePolicy(m, sec, p_type, rule) IN
    /\ ~crashed
    /\ m' = r.m
    /\ last' = [op |-> "RemovePolicy", sec |-> sec, key |-> p_type, rule |-> rule,
                ret |-> r.ret, pre |-> m]
    /\ UNCHANGED crashed

RemovePoliciesCall(sec, p_type, rules) ==
    \E r \in RemovePolicies(m, sec, p_type, rules) :
        /\ ~crashed
        /\ m' = r.m
        /\ last' = [op |-> "RemovePolicies", sec |-> sec, key |-> p_type, rules |-> rules,
                    ret |-> r.ret, pre |-> m]
        /\ crashed' = r.crashed

HasPolicyCall(sec, p_type, rule) ==
    /\ ~crashed
    /\ last' = [op |-> "HasPolicy", sec |-> sec, key |-> p_type, rule |-> rule,
                ret |-> HasPolicy(m, sec, p_type, rule), pre |-> m]
    /\ UNCHANGED <<m, crashed>>

GetFilteredPolicyCall(sec, p_type, field_index, field_values) ==
    \E r \in GetFilteredPolicy(m, sec, p_type, field_index, field_values) :
        /\ ~crashed
        /\ last' = [op |-> "GetFilteredPolicy", sec |-> sec, key |-> p_type,
                    field_index |-> field_index, field_values |-> field_values,
                    ret |-> r.res, pre |-> m]
        /\ crashed' = r.crashed
        /\ UNCHANGED m

RemoveFilteredPolicyCall(sec, p_type, field_index, field_values) ==
    \E r \in RemoveFilteredPolicy(m, sec, p_type, field_index, field_values) :
        /\ ~crashed
        /\ m' = r.m
        /\ last' = [op |-> "RemoveFilteredPolicy", sec |-> sec, key |-> p_type,
                    field_index |-> field_index, field_values |-> field_values,
                    ret |-> r.ret, effects |-> r.effects, pre |-> m]
        /\ crashed' = r.crashed

ClearPolicyCall ==
    /\ ~crashed
    /\ m' = ClearPolicy(m)
    /\ last' = [op |-> "ClearPolicy", pre |-> m]
    /\ UNCHANGED crashed

Next ==
    \/ ClearPolicyCall
    \/ \E t \in Targets(m), rule \in RuleInputs : AddPolicyCall(t[1], t[2], rule)
    \/ \E t \in Targets(m), rules \in Batches : AddPoliciesCall(t[1], t[2], rules)
    \/ \E t \in Targets(m), oldRule \in RuleInputs, newRule \in RuleInputs :
          UpdatePolicyCall(t[1], t[2], oldRule, newRule)
    \/ \E t \in Targets(m), u \in UpdateInputs : UpdatePoliciesCall(t[1], t[2], u[1], u[2])
    \/ \E t \in Targets(m), rule \in RuleInputs : RemovePolicyCall(t[1], t[2], rule)
    \/ \E t \in Targets(m), rules \in Batches : RemovePoliciesCall(t[1], t[2], rules)
    \/ \E t \in Targets(m), rule \in RuleInputs : HasPolicyCall(t[1], t[2], rule)
    \/ \E t \in Targets(m), f \in FilterInputs : GetFilteredPolicyCall(t[1], t[2], f[1], f[2])
    \/ \E t \in Targets(m), f \in FilterInputs : RemoveFilteredPolicyCall(t[1], t[2], f[1], f[2])

Spec == Init /\ [][Next]_vars

\* add and add_many only
NextAdd ==
    \/ \E t \in Targets(m), rule \in RuleInputs : AddPolicyCall(t[1], t[2], rule)
    \/ \E t \in Targets(m), rules \in Batches : AddPoliciesCall(t[1], t[2], rules)

SpecAdd == Init /\ [][NextAdd]_vars

(***************************************************************************)
(* Definitions made while rules are stored                                 *)
(***************************************************************************)
\* the rule stored between the definitions
RedefRule == <<"x", "y">>

NextRedef ==
    \/ \E d \in DefInputs : AddDefCall(d[1], d[2], d[3])
    \/ \E t \in Targets(m) : AddPolicyCall(t[1], t[2], RedefRule)

SpecRedef == InitDef /\ [][NextRedef]_vars

(***************************************************************************)
(* remove_filtered followed by add_many of the removed rules               *)
(***************************************************************************)
\* the rules of a container as the caller lists them for AddPolicies: in
\* iteration order, which for a hash set is any order
AsBatches(pv) ==
    IF pv.is_hash
    THEN {b \in [1..Cardinality(pv.set) -> pv.set] :
            \A i, j \in 1..Cardinality(pv.set) : b[i] = b[j] => i = j}
    ELSE {pv.vec}

\* the second call of the round trip, r being what RemoveFilteredPolicy gave
RoundTripAdd(sec, p_type, field_index, field_values, r, a) ==
    /\ m' = a.m
    /\ last' = [op |-> "RoundTrip", sec |-> sec, key |-> p_type,
                field_index |-> field_index, field_values |-> field_values,
                effects |-> r.effects, mid |-> r.m, ret |-> a.ret, pre |-> m]
    /\ UNCHANGED crashed

RoundTripCall(sec, p_type, field_index, field_values) ==
    \E r \in RemoveFilteredPolicy(m, sec, p_type, field_index, field_values) :
        /\ ~crashed
        /\ IF r.crashed
           THEN /\ crashed' = TRUE
                /\ last' = [op |-> "RemoveFilteredPolicy", sec |-> sec, key |-> p_type,
                            field_index |-> field_index, field_values |-> field_values,
                            ret |-> r.ret, effects |-> r.effects, pre |-> m]
                /\ UNCHANGED m
           ELSE \E b \in AsBatches(r.effects) :
                    RoundTripAdd(sec, p_type, field_index, field_values, r,
                                 AddPolicies(r.m, sec, p_type, b))

NextRound ==
    \/ \E t \in Targets(m), rule \in RuleInputs : AddPolicyCall(t[1], t[2], rule)
    \/ \E t \in Targets(m), rules \in Batches : AddPoliciesCall(t[1], t[2], rules)
    \/ \E t \in Targets(m), f \in FilterInputs : RoundTripCall(t[1], t[2], f[1], f[2])

SpecRound == Init /\ [][NextRound]_vars

(***************************************************************************)
(* The same calls on an assertion of each storage                          *)
(***************************************************************************)
SetKey == <<"p">>

SeqKey == <<"p", "2">>

\* AddDef of m, r, p, g and p2 in this order: p gets set storage; p2, defined
\* when the role section exists, ordered-sequence storage
PairModel ==
    AddDef(AddDef(AddDef(AddDef(AddDef(EmptyModel,
        "m", <<"m">>, MatcherAB).m,
        "r", <<"r">>, FieldsAB).m,
        "p", SetKey, FieldsAB).m,
        "g", <<"g">>, RoleDef).m,
        "p", SeqKey, FieldsAB).m

InitPair ==
    /\ m = PairModel
    /\ last = NoCall
    /\ crashed = FALSE

\* rules of the arity of the two policy definitions, and batches of them
PairRules == {r \in RuleInputs : Len(r) = 2}

PairBatches == {b \in Batches : \A i \in 1..Len(b) : b[i] \in PairRules}

\* the result of a call that has one outcome
Det(r) == {[m |-> r.m, ret |-> r.ret, crashed |-> FALSE]}

\* the state after a call on the set-storage assertion ended in r1 and the
\* same call on the ordered-sequence assertion in r2
PairRecord(call, r1, r2) ==
    /\ ~crashed
    /\ Size(Policy(r2.m, "p", SeqKey)) <= MaxRules
    /\ m' = r2.m
    /\ last' = [op |-> "Pair", call |-> call, ret_set |-> r1.ret, ret_seq |-> r2.ret,
                pre |-> m]
    /\ crashed' = (r1.crashed \/ r2.crashed)

\* the outcomes of GetFilteredPolicy as [m, ret, crashed], ret the rules returned
FilteredOutcomes(mm, p_type, field_index, field_values) ==
    {[m |-> mm, ret |-> Rules(o.res), crashed |-> o.crashed] :
        o \in GetFilteredPolicy(mm, "p", p_type, field_index, field_values)}

\* the outcomes of RemoveFilteredPolicy as [m, ret, crashed], ret the flag and
\* the rules returned
RemoveFilteredOutcomes(mm, p_type, field_index, field_values) ==
    {[m |-> o.m, ret |-> <<o.ret, Rules(o.effects)>>, crashed |-> o.crashed] :
        o \in RemoveFilteredPolicy(mm, "p", p_type, field_index, field_values)}

PairAddPolicy(rule) ==
    \E r1 \in Det(AddPolicy(m, "p", SetKey, rule)) :
        \E r2 \in Det(AddPolicy(r1.m, "p", SeqKey, rule)) :
            PairRecord(<<"AddPolicy", rule>>, r1, r2)

PairAddPolicies(rules) ==
    \E r1 \in Det(AddPolicies(m, "p", SetKey, rules)) :
        \E r2 \in Det(AddPolicies(r1.m, "p", SeqKey, rules)) :
            PairRecord(<<"AddPolicies", rules>>, r1, r2)

PairUpdatePolicy(oldRule, newRule) ==
    \E r1 \in Det(UpdatePolicy(m, "p", SetKey, oldRule, newRule)) :
        \E r2 \in Det(UpdatePolicy(r1.m, "p", SeqKey, oldRule, newRule)) :
            PairRecord(<<"UpdatePolicy", oldRule, newRule>>, r1, r2)

PairUpdatePolicies(oldRules, newRules) ==
    \E r1 \in Det(UpdatePolicies(m, "p", SetKey, oldRules, newRules)) :
        \E r2 \in Det(UpdatePolicies(r1.m, "p", SeqKey, oldRules, newRules)) :
            PairRecord(<<"UpdatePolicies", oldRules, newRules>>, r1, r2)

PairRemovePolicy(rule) ==
    \E r1 \in Det(RemovePolicy(m, "p", SetKey, rule)) :
        \E r2 \in Det(RemovePolicy(r1.m, "p", SeqKey, rule)) :
            PairRecord(<<"RemovePolicy", rule>>, r1, r2)

PairRemovePolicies(rules) ==
    \E r1 \in RemovePolicies(m, "p", SetKey, rules) :
        \E r2 \in RemovePolicies(r1.m, "p", SeqKey, rules) :
            PairRecord(<<"RemovePolicies", rules>>, r1, r2)

PairHasPolicy(rule) ==
    \E r1 \in Det([m |-> m, ret |-> HasPolicy(m, "p", SetKey, rule)]) :
        \E r2 \in Det([m |-> m, ret |-> HasPolicy(m, "p", SeqKey, rule)]) :
            PairRecord(<<"HasPolicy", rule>>, r1, r2)

PairGetFilteredPolicy(field_index, field_values) ==
    \E r1 \in FilteredOutcomes(m, SetKey, field_index, field_values) :
        \E r2 \in FilteredOutcomes(r1.m, SeqKey, field_index, field_values) :
            PairRecord(<<"GetFilteredPolicy", field_index, field_values>>, r1, r2)

PairRemoveFilteredPolicy(field_index, field_values) ==
    \E r1 \in RemoveFilteredOutcomes(m, SetKey, field_index, field_values) :
        \E r2 \in RemoveFilteredOutcomes(r1.m, SeqKey, field_index, field_values) :
            PairRecord(<<"RemoveFilteredPolicy", field_index, field_values>>, r1, r2)

NextPair ==
    \/ \E rule \in PairRules : PairAddPolicy(rule)
    \/ \E rules \in PairBatches : PairAddPolicies(rules)
    \/ \E oldRule \in PairRules, newRule \in PairRules : PairUpdatePolicy(oldRule, newRule)
    \/ \E u \in UpdateInputs : PairUpdatePolicies(u[1], u[2])
    \/ \E rule \in PairRules : PairRemovePolicy(rule)
    \/ \E rules \in PairBatches : PairRemovePolicies(rules)
    \/ \E rule \in PairRules : PairHasPolicy(rule)
    \/ \E f \in FilterInputs : PairGetFilteredPolicy(f[1], f[2])
    \/ \E f \in FilterInputs : PairRemoveFilteredPolicy(f[1], f[2])

SpecPair == InitPair /\ [][NextPair]_vars

(***************************************************************************)
(* Properties                                                              *)
(***************************************************************************)
\* the container the last call worked on, before and after the call
PrePolicy == Policy(last.pre, last.sec, last.key)

PostPolicy == Policy(m, last.sec, last.key)

\* no two elements of the container are field-wise equal
NoDuplicates(pv) ==
    pv.is_hash \/ \A i, j \in 1..Len(pv.vec) : ArrayEquals(pv.vec[i], pv.vec[j]) => i = j

\* C1: after any sequence of add and add_many calls on an empty container, the
\* container holds no two field-wise equal rules, under either storage
C1_Uniqueness == \A t \in Targets(m) : NoDuplicates(Policy(m, t[1], t[2]))

\* C2: update(old_rule, new_rule) with old_rule present and new_rule present
\* elsewhere in the container returns failure and leaves the container as it
\* was before the call
C2_TransactionalUpdate ==
    (/\ last.op = "UpdatePolicy"
     /\ last.oldRule # last.newRule
     /\ HasPolicy(last.pre, last.sec, last.key, last.oldRule)
     /\ HasPolicy(last.pre, last.sec, last.key, last.newRule))
    => (last.ret = FALSE /\ m = last.pre)

\* C3: update_many either succeeds with every old rule removed and every new
\* rule inserted, or fails and leaves the container as it was
C3_UpdateManyAllOrNothing ==
    last.op = "UpdatePolicies" =>
        \/ /\ last.ret = TRUE
           /\ \A i \in 1..Len(last.newRules) : HasPolicy(m, last.sec, last.key, last.newRules[i])
           /\ \A i \in 1..Len(last.oldRules) :
                 HasPolicy(m, last.sec, last.key, last.oldRules[i])
                 => \E k \in 1..Len(last.newRules) : ArrayEquals(last.newRules[k], last.oldRules[i])
        \/ /\ last.ret = FALSE
           /\ m = last.pre

\* C4: add_many with a batch of which some rule is already in the container
\* returns failure and leaves the container unchanged; otherwise it returns
\* success and the container holds its former rules and every rule of the batch
C4_AtomicBatchAdd ==
    last.op = "AddPolicies" =>
        IF \E i \in 1..Len(last.rules) : last.rules[i] \in Rules(PrePolicy)
        THEN last.ret = FALSE /\ m = last.pre
        ELSE last.ret = TRUE /\ Rules(PostPolicy) = Rules(PrePolicy) \cup Range(last.rules)

\* a batch whose first rule is new and whose second is present was rejected
C4_Witness ==
    /\ last.op = "AddPolicies"
    /\ Len(last.rules) = 2
    /\ last.rules[1] \notin Rules(PrePolicy)
    /\ last.rules[2] \in Rules(PrePolicy)
    /\ last.ret = FALSE

\* C5: remove_many with a batch of which some rule is absent from the
\* container reports failure and deletes nothing, wherever the absent rule is
\* in the batch
C5_RemoveManyFailure ==
    (/\ last.op = "RemovePolicies"
     /\ \E i \in 1..Len(last.rules) : last.rules[i] \notin Rules(PrePolicy))
    => (last.ret = FALSE /\ m = last.pre)

\* a batch whose first rule is present and whose second is absent was rejected
C5_Witness ==
    /\ last.op = "RemovePolicies"
    /\ Len(last.rules) = 2
    /\ last.rules[1] \in Rules(PrePolicy)
    /\ last.rules[2] \notin Rules(PrePolicy)
    /\ last.ret = FALSE

\* C10: every stored rule has as many fields as its assertion has tokens
C10_ArityEqualsTokens ==
    \A t \in Targets(m) :
        \A rule \in Rules(Policy(m, t[1], t[2])) : Len(rule) = Len(m[t[1]][t[2]].tokens)

\* C6: whenever the model has a role-definition section "g", no assertion of
\* the policy section uses set storage
C6_NoSetStorageWithRoles ==
    (HasSection(m, "g") /\ HasSection(m, "p"))
    => \A key \in DOMAIN m["p"] : ~m["p"][key].policy.is_hash

\* the fields of the request tokens: a token without its "r_" prefix
EffectiveTokens(tokens) == [i \in 1..Len(tokens) |-> SubSeq(tokens[i], 3, Len(tokens[i]))]

\* the clauses r.<f> == p.<f> of the fields, in the order ord, joined by " && "
RECURSIVE JoinClauses(_, _, _)
JoinClauses(fields, ord, k) ==
    IF k > Len(fields) THEN <<>>
    ELSE (IF k = 1 THEN <<>> ELSE AndSep) \o Clause(fields[ord[k]]) \o JoinClauses(fields, ord, k + 1)

\* the text is one clause for every field, joined by " && ", and nothing else
ExactConjunction(text, fields) ==
    \E ord \in [1..Len(fields) -> 1..Len(fields)] :
        /\ \A i, j \in 1..Len(fields) : ord[i] = ord[j] => i = j
        /\ text = JoinClauses(fields, ord, 1)

\* the condition under which a policy definition is to get set storage
Eligible(mm) ==
    /\ HasAssertion(mm, "r", <<"r">>)
    /\ Len(mm["r"][<<"r">>].tokens) >= 1
    /\ HasAssertion(mm, "m", <<"m">>)
    /\ ExactConjunction(mm["m"][<<"m">>].value, EffectiveTokens(mm["r"][<<"r">>].tokens))
    /\ ~HasSection(mm, "g")

\* C7: a policy assertion defined through add_definition gets set storage iff,
\* at that moment, request "r" has a token, matcher "m" exists and is exactly
\* one clause r.<f> == p.<f> per request token joined by " && ", and there is
\* no "g" section
C7_EligibilityCorrectness ==
    (last.op = "AddDef" /\ last.sec = "p" /\ last.ret = TRUE)
    => (m["p"][last.key].policy.is_hash <=> Eligible(last.pre))

\* C8: the same calls on a set-storage and on an ordered-sequence assertion
\* return the same values and leave the same set of rules
C8_RepresentationIndependence ==
    (last.op = "Pair" /\ ~crashed)
    => /\ last.ret_set = last.ret_seq
       /\ Rules(Policy(m, "p", SetKey)) = Rules(Policy(m, "p", SeqKey))

\* the required sections the configuration has a definition for
DefinedRequired(cfg) ==
    {sec \in Range(required_sections) : GetString(cfg, sec, KeyOf(sec, 1)) # <<>>}

\* C9: load succeeds iff each of r, p, e, m has a definition in the
\* configuration; otherwise it fails with MissingRequiredSections naming
\* exactly the missing required sections, and in no other way
C9_LoadFailureSurface ==
    last.op = "Load" =>
        /\ last.status = "ok" <=> DefinedRequired(last.cfg) = Range(required_sections)
        /\ last.status # "ok" =>
              /\ last.status = "MissingRequiredSections"
              /\ Range(last.ms) =
                    {section_name_map[sec] : sec \in Range(required_sections) \ DefinedRequired(last.cfg)}
              /\ Len(last.ms) = Cardinality(Range(last.ms))


\* how many times rule occurs in the sequence vec
RECURSIVE Count(_, _)
Count(vec, rule) ==
    IF vec = <<>> THEN 0
    ELSE (IF Head(vec) = rule THEN 1 ELSE 0) + Count(Tail(vec), rule)

Matches(rule, field_index, field_values) ==
    \A j \in 1..Len(field_values) :
        \/ field_values[j] = ""
        \/ field_index + j <= Len(rule) /\ rule[field_index + j] = field_values[j]

\* the rules of vec that match (want = TRUE) or do not (want = FALSE), in order
RECURSIVE Matching(_, _, _, _)
Matching(vec, field_index, field_values, want) ==
    IF vec = <<>> THEN <<>>
    ELSE (IF Matches(Head(vec), field_index, field_values) = want THEN <<Head(vec)>> ELSE <<>>)
         \o Matching(Tail(vec), field_index, field_values, want)

\* the matching (want = TRUE) or other (want = FALSE) part of a container
MatchingPart(pv, field_index, field_values, want) ==
    [is_hash |-> pv.is_hash,
     vec |-> Matching(pv.vec, field_index, field_values, want),
     set |-> {rule \in pv.set : Matches(rule, field_index, field_values) = want}]

\* some stored rule is too short for the positions the filter compares
ShortRuleStored(pv, field_index, field_values) ==
    \E rule \in Rules(pv) : ReadsPastEnd(rule, field_index, field_values, 1)

\* C12: remove_filtered returns the rules get_filtered gives for the same
\* arguments, leaves exactly the other rules in the container, in their
\* previous order, and its flag tells whether a rule was removed
C12_RemoveFilteredPartitions ==
    (last.op = "RemoveFilteredPolicy" /\ ~crashed) =>
        /\ last.effects = MatchingPart(PrePolicy, last.field_index, last.field_values, TRUE)
        /\ PostPolicy = MatchingPart(PrePolicy, last.field_index, last.field_values, FALSE)
        /\ m = SetPolicy(last.pre, last.sec, last.key, PostPolicy)
        /\ last.ret = (Size(last.effects) > 0)

\* C13: get_filtered returns exactly the stored rules that match under the
\* wildcard rule and leaves the model as it was
C13_GetFilteredExact ==
    (last.op = "GetFilteredPolicy" /\ ~crashed) =>
        /\ last.ret = MatchingPart(PrePolicy, last.field_index, last.field_values, TRUE)
        /\ m = last.pre

\* the assertion keys of a section, none when the section is absent
KeysOf(mm, sec) == IF HasSection(mm, sec) THEN DOMAIN mm[sec] ELSE {}

\* C14: clear_policy empties every rule container of sections p and g and
\* changes nothing else: the same sections are present, with the same keys,
\* raw text and tokens, and the containers of the other sections are as they
\* were
C14_ClearPolicyFrame ==
    last.op = "ClearPolicy" =>
        /\ \A sec \in Sections : HasSection(m, sec) = HasSection(last.pre, sec)
        /\ \A sec \in Sections : KeysOf(m, sec) = KeysOf(last.pre, sec)
        /\ \A sec \in Sections : \A k \in KeysOf(m, sec) \cap KeysOf(last.pre, sec) :
              /\ m[sec][k].key = last.pre[sec][k].key
              /\ m[sec][k].value = last.pre[sec][k].value
              /\ m[sec][k].tokens = last.pre[sec][k].tokens
              /\ m[sec][k].policy.is_hash = last.pre[sec][k].policy.is_hash
              /\ IF sec \in {"p", "g"} THEN Size(m[sec][k].policy) = 0
                 ELSE m[sec][k].policy = last.pre[sec][k].policy

\* the assertions of every section, as a function of section and key
SameAssertions(m1, m2) ==
    \A sec \in Sections :
        /\ KeysOf(m1, sec) = KeysOf(m2, sec)
        /\ \A k \in KeysOf(m1, sec) \cap KeysOf(m2, sec) : m1[sec][k] = m2[sec][k]

\* C15: add_definition for section p with a non-empty value returns
\* not-added and stores no assertion when section m or r is absent, and
\* returns added, with the assertion stored, when both are present; a
\* non-empty definition in m, r, g or e is never answered with not-added
C15_PolicyDefinitionGuard ==
    (last.op = "AddDef" /\ last.value # <<>>) =>
        /\ (last.sec = "p" /\ (~HasSection(last.pre, "m") \/ ~HasSection(last.pre, "r"))) =>
              /\ ~last.ret /\ ~last.threw
              /\ SameAssertions(m, last.pre)
        /\ (last.sec = "p" /\ HasSection(last.pre, "m") /\ HasSection(last.pre, "r")) =>
              /\ last.ret /\ ~last.threw
              /\ HasAssertion(m, "p", last.key)
        /\ last.sec # "p" => (last.ret \/ last.threw)

\* C20: whenever add_definition returns not-added, for an empty value or by
\* the policy-definition guard, the model is as before the call: HasSection
\* answers the same for every section and no assertion is added or replaced
C20_FailedDefinitionFrame ==
    (last.op = "AddDef" /\ ~last.ret /\ ~last.threw) =>
        /\ \A sec \in Sections : HasSection(m, sec) = HasSection(last.pre, sec)
        /\ SameAssertions(m, last.pre)

\* the length of the contiguous non-empty prefix of the values of a section
RECURSIVE PrefixLen(_)
PrefixLen(vals) ==
    IF vals = <<>> \/ Head(vals) = <<>> THEN 0 ELSE 1 + PrefixLen(Tail(vals))

\* the keys of the contiguous non-empty prefix
PrefixKeys(cfg, sec) == {KeyOf(sec, i) : i \in 1..PrefixLen(cfg[sec])}

\* the calls of the log that are for section sec, in order
RECURSIVE CallsFor(_, _)
CallsFor(calls, sec) ==
    IF calls = <<>> THEN <<>>
    ELSE (IF Head(calls).sec = sec THEN <<Head(calls)>> ELSE <<>>) \o CallsFor(Tail(calls), sec)

\* C16 as the specification states it: after load every section holds
\* exactly the assertions of the contiguous non-empty prefix of its keys
C16_ExactPrefix ==
    last.op = "Load" =>
        \A sec \in Sections : KeysOf(m, sec) = PrefixKeys(last.cfg, sec)

\* the keys of a section form an initial part of sec, sec2, ...
InitialKeys(mm, sec) ==
    \E n \in 0..Cardinality(KeysOf(mm, sec)) : KeysOf(mm, sec) = {KeyOf(sec, i) : i \in 1..n}

\* C16, amended: load passes the keys sec, sec2, ... of a section to
\* add_definition in order, each with the value the configuration has for
\* it, and makes no further call for the section after the first one that
\* is not added; a key after the first empty or missing value is never
\* added; the assertions a section ends up with are an initial part of the
\* contiguous non-empty prefix, and exactly that prefix when load did not
\* end with std::out_of_range and the section is not a policy section loaded
\* while section m or r is absent (the guard rejects its first key)
C16_SuffixScanning ==
    last.op = "Load" =>
        \A sec \in Sections :
            /\ \A i \in 1..Len(CallsFor(last.calls, sec)) :
                  /\ CallsFor(last.calls, sec)[i].key = KeyOf(sec, i)
                  /\ CallsFor(last.calls, sec)[i].value = GetString(last.cfg, sec, KeyOf(sec, i))
                  /\ i < Len(CallsFor(last.calls, sec)) => CallsFor(last.calls, sec)[i].ret
            /\ KeysOf(m, sec) \subseteq PrefixKeys(last.cfg, sec)
            /\ InitialKeys(m, sec)
            /\ \A k \in KeysOf(m, sec) : m[sec][k].key = k
            /\ (/\ last.status # "out_of_range"
                /\ sec = "p" => (HasSection(m, "m") /\ HasSection(m, "r")))
               => KeysOf(m, sec) = PrefixKeys(last.cfg, sec)

\* a load that stored two assertions for a section with keys sec and sec2,
\* left out a second key that follows an empty first one, and rejected a
\* policy definition for want of section m or r
C16_Witness ==
    /\ last.op = "Load" /\ last.status # "out_of_range"
    /\ \E sec \in Sections : Cardinality(KeysOf(m, sec)) = 2
    /\ \E sec \in Sections :
          /\ last.cfg[sec][1] = <<>> /\ last.cfg[sec][2] # <<>>
          /\ KeysOf(m, sec) = {}
    /\ PrefixLen(last.cfg["p"]) > 0 /\ KeysOf(m, "p") = {}

\* the place of a section in the order m, r, p, g, e
PlaceOf(sec) ==
    CASE sec = "m" -> 1 [] sec = "r" -> 2 [] sec = "p" -> 3 [] sec = "g" -> 4 [] sec = "e" -> 5

\* C18: the add_definition calls of a load come section by section in the
\* order m, r, p, g, e, starting with m and skipping none: every call for p
\* comes after all calls for m and r, and every call for g after all for p
C18_LoadOrdering ==
    last.op = "Load" =>
        /\ Len(last.calls) > 0 /\ last.calls[1].sec = "m"
        /\ \A i \in 1..(Len(last.calls) - 1) :
              \/ PlaceOf(last.calls[i + 1].sec) = PlaceOf(last.calls[i].sec)
              \/ PlaceOf(last.calls[i + 1].sec) = PlaceOf(last.calls[i].sec) + 1
        /\ \A i, j \in 1..Len(last.calls) :
              /\ (last.calls[i].sec \in {"m", "r"} /\ last.calls[j].sec = "p") => i < j
              /\ (last.calls[i].sec = "p" /\ last.calls[j].sec = "g") => i < j

\* a load that added definitions in m, r, p and g
C18_Witness ==
    /\ last.op = "Load" /\ last.status = "ok"
    /\ \A sec \in {"m", "r", "p", "g"} :
          \E i \in 1..Len(last.calls) : last.calls[i].sec = sec /\ last.calls[i].ret

\* the rules a removal was asked to remove
Requested ==
    IF last.op = "RemovePolicy" THEN {last.rule} ELSE Range(last.rules)

\* C19: after remove or remove_many returned true, has answers false for
\* every rule removed and every other rule is still present
C19_RemovalPostcondition ==
    (last.op \in {"RemovePolicy", "RemovePolicies"} /\ last.ret /\ ~crashed) =>
        /\ \A rule \in Requested : ~HasPolicy(m, last.sec, last.key, rule)
        /\ \A rule \in Rules(PrePolicy) \ Requested : HasPolicy(m, last.sec, last.key, rule)
        /\ m = SetPolicy(last.pre, last.sec, last.key, PostPolicy)

\* the last call was add_definition for a key already defined with the value
\* that the call stores again
Redefinition ==
    /\ last.op = "AddDef" /\ last.value # <<>>
    /\ HasAssertion(last.pre, last.sec, last.key)
    /\ last.pre[last.sec][last.key].value = NewAssertion(last.sec, last.key, last.value).value

\* C17 as the specification states it: a repeated add_definition leaves
\* the model as it was, storage mode and stored rules included
C17_RedefinitionKeepsModel ==
    Redefinition => (last.ret /\ m = last.pre)

\* C17, amended: a repeated add_definition that does not throw returns
\* added and keeps the sections, the keys of every section, every other
\* assertion, and the key, raw text and tokens of the assertion it
\* replaces; the replaced assertion gets a new, empty rule container whose
\* storage mode is decided anew, never set storage when section g exists;
\* the model is as before when the old container was empty and of the mode
\* decided now; a repeated call that throws leaves the model as it was
C17_Redefinition ==
    Redefinition =>
        IF last.threw THEN ~last.ret /\ m = last.pre
        ELSE /\ last.ret
             /\ \A sec \in Sections : HasSection(m, sec) = HasSection(last.pre, sec)
             /\ \A sec \in Sections : KeysOf(m, sec) = KeysOf(last.pre, sec)
             /\ \A sec \in Sections : \A k \in KeysOf(m, sec) \cap KeysOf(last.pre, sec) :
                   (sec # last.sec \/ k # last.key) => m[sec][k] = last.pre[sec][k]
             /\ m[last.sec][last.key].key = last.pre[last.sec][last.key].key
             /\ m[last.sec][last.key].value = last.pre[last.sec][last.key].value
             /\ m[last.sec][last.key].tokens = last.pre[last.sec][last.key].tokens
             /\ Size(m[last.sec][last.key].policy) = 0
             /\ m[last.sec][last.key].policy.is_hash => ~HasSection(last.pre, "g")
             /\ (/\ Size(last.pre[last.sec][last.key].policy) = 0
                 /\ last.pre[last.sec][last.key].policy.is_hash
                       = m[last.sec][last.key].policy.is_hash)
                => m = last.pre

\* a repeated policy definition that dropped stored rules and changed the
\* storage mode from set to ordered sequence
C17_Witness ==
    /\ Redefinition /\ last.ret /\ last.sec = "p"
    /\ Size(last.pre[last.sec][last.key].policy) > 0
    /\ last.pre[last.sec][last.key].policy.is_hash
    /\ ~m[last.sec][last.key].policy.is_hash


====
